---------------------------- MODULE Spec2Model ----------------------------
(***************************************************************************)
(* A model of the L3GD20 SPI gyroscope driver (src/src/lib.rs) together    *)
(* with its value types (reading.rs, sensor_data.rs, characteristics.rs).  *)
(*                                                                         *)
(* The driver is a sequential program.  Every public operation is a run of *)
(* register transactions; one transaction is                               *)
(*     select_guard()  ->  spi.transfer(&mut buffer)  ->  drop(_guard)     *)
(* and the model keeps the position inside the running operation, so that  *)
(* the chip-select line and the bus can be observed between the steps.     *)
(* The pure functions of the crate (command codec, freshness tags, sample  *)
(* decoding) are operators; they are also exercised on their own under     *)
(* specifications whose initial states draw their inputs.                  *)
(***************************************************************************)
EXTENDS Integers, Sequences, FiniteSets, TLC

VARIABLES
    cs,          \* chip-select line: TRUE while a select guard is alive
    regs,        \* the device's configuration registers, address -> byte
    constructed, \* TRUE once L3GD20SPI::new has returned Ok(device)
    op,          \* the public operation in progress, [name |-> "idle"] if none
    txn,         \* number of the register transaction inside the operation
    phase,       \* position inside the transaction
    buffer,      \* the transfer buffer of the transaction
    xfer,        \* outcome of the last spi.transfer of the operation
    acc,         \* registers decoded so far by the operation (its locals)
    log,         \* transmit buffers handed to spi.transfer by this call
    nSelect,     \* select_guard() calls of this call
    nRelease,    \* guard drops of this call
    result,      \* what the last call returned
    input,       \* argument of the pure function under study
    output       \* value the pure function returned

vars == <<cs, regs, constructed, op, txn, phase, buffer, xfer, acc, log,
          nSelect, nRelease, result, input, output>>

driverVars == <<cs, regs, constructed, op, txn, phase, buffer, xfer, acc, log,
                nSelect, nRelease, result>>

----------------------------------------------------------------------------
(* u8 arithmetic                                                           *)

Byte == 0..255

RECURSIVE AndBits(_, _, _)
AndBits(a, b, n) ==
    IF n = 0 THEN 0
    ELSE (a % 2) * (b % 2) + 2 * AndBits(a \div 2, b \div 2, n - 1)

RECURSIVE OrBits(_, _, _)
OrBits(a, b, n) ==
    IF n = 0 THEN 0
    ELSE (IF (a % 2) + (b % 2) > 0 THEN 1 ELSE 0)
         + 2 * OrBits(a \div 2, b \div 2, n - 1)

\* Rust's `a & b` and `a | b` on u8
BitAnd(a, b) == AndBits(a, b, 8)
BitOr(a, b) == OrBits(a, b, 8)

\* bit i of a byte, as a boolean
TestBit(b, i) == ((b \div (2 ^ i)) % 2) = 1

----------------------------------------------------------------------------
(* Command codec: lib.rs, L3GD20SPI::READ .. write_single_cmd              *)

READ == 128
WRITE == 0
MULTI == 64
SINGLE == 0
REG_ADDR_MASK == 63

\* faulty variant: the address is not masked
read_single_cmd_unmasked(a) == BitOr(BitOr(READ, SINGLE), a)

read_single_cmd(a) == BitOr(BitOr(READ, SINGLE), BitAnd(a, REG_ADDR_MASK))

read_multi_cmd(a) == BitOr(BitOr(READ, MULTI), BitAnd(a, REG_ADDR_MASK))

write_single_cmd(a) == BitOr(BitOr(WRITE, SINGLE), BitAnd(a, REG_ADDR_MASK))

----------------------------------------------------------------------------
(* Reading<T>: reading.rs.  A reading is [tag, value].                     *)

\* Reading::map(value, data_available, overrun); called by SensorData::new.
\* Its body is not among the source files: overrun wins over data-available.
Reading_map(v, da, ovr) ==
    IF ovr THEN [tag |-> "Overrun", value |-> v]
    ELSE IF da THEN [tag |-> "Fresh", value |-> v]
    ELSE [tag |-> "Stale", value |-> v]

Reading_stale(r) == r.tag = "Stale"
Reading_fresh(r) == r.tag = "Fresh"
Reading_overrun(r) == r.tag = "Overrun"
Reading_fresh_or_overrun(r) == Reading_fresh(r) \/ Reading_overrun(r)

----------------------------------------------------------------------------
(* StatusRegister accessors (STATUS_REG: ZYXOR ZOR YOR XOR ZYXDA ZDA YDA   *)
(* XDA, bit 7 down to bit 0), as sensor_data.rs uses them.                 *)

x_da(st) == TestBit(st, 0)
y_da(st) == TestBit(st, 1)
z_da(st) == TestBit(st, 2)
x_overrun(st) == TestBit(st, 4)
y_overrun(st) == TestBit(st, 5)
z_overrun(st) == TestBit(st, 6)

----------------------------------------------------------------------------
(* SensorData: sensor_data.rs                                              *)

\* faulty variant: y is tagged from the status bits of x
SensorData_new_xbits(temperature, x, y, z, st) ==
    [temperature |-> temperature,
     x |-> Reading_map(x, x_da(st), x_overrun(st)),
     y |-> Reading_map(y, x_da(st), x_overrun(st)),
     z |-> Reading_map(z, z_da(st), z_overrun(st))]

SensorData_new(temperature, x, y, z, st) ==
    [temperature |-> temperature,
     x |-> Reading_map(x, x_da(st), x_overrun(st)),
     y |-> Reading_map(y, y_da(st), y_overrun(st)),
     z |-> Reading_map(z, z_da(st), z_overrun(st))]

SensorData_stale(s) ==
    Reading_stale(s.x) \/ Reading_stale(s.y) \/ Reading_stale(s.z)

\* `&&` binds tighter than `||`
SensorData_fresh(s) ==
    (Reading_fresh(s.x) /\ Reading_stale(s.y)) \/ Reading_stale(s.z)

SensorData_fresh_or_overrun(s) ==
    (Reading_fresh_or_overrun(s.x) /\ Reading_fresh_or_overrun(s.y))
        \/ Reading_fresh_or_overrun(s.z)

SensorData_overrun(s) ==
    (Reading_overrun(s.x) /\ Reading_overrun(s.y)) \/ Reading_overrun(s.z)

I16x3_new(x, y, z) == [x |-> x, y |-> y, z |-> z]

----------------------------------------------------------------------------
(* Sample decoding: the tail of xyz_raw and of data_raw, after the         *)
(* transfer.  At(buffer, k) is Rust's buffer[k].                           *)

At(buf, k) == buf[k + 1]

\* `high + low` of the register crate: ((high as u16) << 8 | low) as i16
AddHighLow(high, low) ==
    LET u == high * 256 + low
    IN  IF u >= 32768 THEN u - 65536 ELSE u

\* faulty variant: the command byte [0] is not skipped
xyz_raw_ok_from0(buf) ==
    LET xlo == At(buf, 0)
        xhi == At(buf, 1)
        ylo == At(buf, 2)
        yhi == At(buf, 3)
        zlo == At(buf, 4)
        zhi == At(buf, 5)
    IN  I16x3_new(AddHighLow(xhi, xlo), AddHighLow(yhi, ylo),
                  AddHighLow(zhi, zlo))

xyz_raw_ok(buf) ==
    LET xlo == At(buf, 1)
        xhi == At(buf, 2)
        ylo == At(buf, 3)
        yhi == At(buf, 4)
        zlo == At(buf, 5)
        zhi == At(buf, 6)
        x == AddHighLow(xhi, xlo)
        y == AddHighLow(yhi, ylo)
        z == AddHighLow(zhi, zlo)
    IN  I16x3_new(x, y, z)

data_raw_ok(buf) ==
    LET temp == At(buf, 1)
        st == At(buf, 2)
        xlo == At(buf, 3)
        xhi == At(buf, 4)
        ylo == At(buf, 5)
        yhi == At(buf, 6)
        zlo == At(buf, 7)
        zhi == At(buf, 8)
        x == AddHighLow(xhi, xlo)
        y == AddHighLow(yhi, ylo)
        z == AddHighLow(zhi, zlo)
    IN  SensorData_new(temp, x, y, z, st)

----------------------------------------------------------------------------
(* Register map, as lib.rs uses it: the register addresses and the bit     *)
(* fields of the control registers (L3GD20 datasheet layout).              *)

WhoAmI == 15
ControlRegister1 == 32
ControlRegister2 == 33
ControlRegister3 == 34
ControlRegister4 == 35
ControlRegister5 == 36
TemperatureRegister == 38
StatusRegister == 39
OutXLow == 40

ControlRegisters ==
    {ControlRegister1, ControlRegister2, ControlRegister3, ControlRegister4,
     ControlRegister5}

\* R::default(): every field zero
RegisterDefault == 0

\* the value of a `width`-bit field at `shift`, and the byte with it replaced
GetField(reg, shift, width) == (reg \div (2 ^ shift)) % (2 ^ width)

SetField(reg, shift, width, v) ==
    reg - GetField(reg, shift, width) * (2 ^ shift)
        + (v % (2 ^ width)) * (2 ^ shift)

FromBool(b) == IF b THEN 1 ELSE 0

\* CTRL_REG1: DR1 DR0 BW1 BW0 PD Zen Yen Xen
with_x_enable(reg, b) == SetField(reg, 0, 1, FromBool(b))
with_y_enable(reg, b) == SetField(reg, 1, 1, FromBool(b))
with_z_enable(reg, b) == SetField(reg, 2, 1, FromBool(b))
with_power_up(reg, b) == SetField(reg, 3, 1, FromBool(b))
with_bandwidth(reg, bw) == SetField(reg, 4, 2, bw)
with_output_data_rate(reg, odr) == SetField(reg, 6, 2, odr)
bandwidth(reg) == GetField(reg, 4, 2)
output_data_rate(reg) == GetField(reg, 6, 2)

\* CTRL_REG3: I2_DRDY is bit 3
with_i2drdy(reg, b) == SetField(reg, 3, 1, FromBool(b))

\* CTRL_REG4: BDU BLE FS1 FS0 - 0 0 SIM
with_full_scale(reg, fs) == SetField(reg, 4, 2, fs)
full_scale(reg) == GetField(reg, 4, 2)

\* CTRL_REG5: BOOT is bit 7
with_boot(reg, b) == SetField(reg, 7, 1, FromBool(b))

\* <<shift, width>> of the fields that only reset() sets:
\* CTRL_REG2: 0 0 HPM1 HPM0 HPCF3..HPCF0
\* CTRL_REG3: I1_Int1 I1_Boot H_Lactive PP_OD I2_DRDY I2_WTM I2_ORun I2_Empty
\* CTRL_REG4: BDU BLE FS1 FS0 - 0 0 SIM
\* CTRL_REG5: BOOT FIFO_EN - HPen INT1_Sel1 INT1_Sel0 Out_Sel1 Out_Sel0
FieldLayout ==
    [hpcf |-> <<0, 4>>, hpm |-> <<4, 2>>,
     i2empty |-> <<0, 1>>, i2orun |-> <<1, 1>>, i2wtm |-> <<2, 1>>,
     open_drain |-> <<4, 1>>, int1_low |-> <<5, 1>>, i1boot |-> <<6, 1>>,
     i1int1 |-> <<7, 1>>,
     spi_serial_3wire |-> <<0, 1>>, big_endian |-> <<6, 1>>,
     block_data_update |-> <<7, 1>>,
     out_sel |-> <<0, 2>>, int1_sel |-> <<2, 2>>, hpen |-> <<4, 1>>,
     fifo_enable |-> <<6, 1>>]

\* reg.with_<field>(v) for a field of FieldLayout
with_field(reg, field, v) ==
    SetField(reg, FieldLayout[field][1], FieldLayout[field][2], v)

\* enum encodings of the two-bit fields
Hz95 == 0
Hz190 == 1
Hz380 == 2
Hz760 == 3
OutputDataRate == {Hz95, Hz190, Hz380, Hz760}

Narrowest == 0
Narrow == 1
Medium == 2
Wide == 3
Bandwidth == {Narrowest, Narrow, Medium, Wide}

D250 == 0
D500 == 1
D2000 == 2
D2000_11 == 3
Sensitivity == {D250, D500, D2000, D2000_11}

NormalModeResetFilter == 0

\* WHO_AM_I of an L3GD20, the value identify() compares with
L3GD20_IDENT == 212

----------------------------------------------------------------------------
(* Characteristics: lib.rs, the record built by characteristics().         *)
(* The f32 fields are fixed-point integers:                                *)
(*   sensitivity           in 1e-5 dps/LSB     (8.75 * 0.001  -> 875)      *)
(*   zero_rate_noise       in dps                                          *)
(*   zero_rate_level_temp  in 1e-2 dps         (0.03 * data   -> 3 * data) *)
(*   rate_noise_density    in 1e-5 dps/sqrt(Hz), 0.03 * factor with the    *)
(*                         factor rounded to 1e-3 (3.5355339 -> 3536)      *)

SqrtHzFactorMilli(bw, odr) ==
    CASE bw = Narrowest ->
            (CASE odr = Hz95 -> 3536
               [] odr = Hz190 -> 3536
               [] odr = Hz380 -> 4472
               [] odr = Hz760 -> 5477)
      [] bw = Narrow ->
            (CASE odr = Hz95 -> 5000
               [] odr = Hz190 -> 5000
               [] odr = Hz380 -> 25000
               [] odr = Hz760 -> 5916)
      [] bw = Medium ->
            (CASE odr = Hz95 -> 5000
               [] odr = Hz190 -> 7071
               [] odr = Hz380 -> 7071
               [] odr = Hz760 -> 7071)
      [] bw = Wide ->
            (CASE odr = Hz95 -> 5000
               [] odr = Hz190 -> 8367
               [] odr = Hz380 -> 10000
               [] odr = Hz760 -> 10000)

\* the tail of characteristics(): data = temp_raw, reg1, reg4 as read
characteristics_ok(data, reg1, reg4) ==
    LET odr == output_data_rate(reg1)
        bw == bandwidth(reg1)
        fs == full_scale(reg4)
    IN  [full_scale |->
            CASE fs = D250 -> 250 [] fs = D500 -> 500
              [] fs = D2000 -> 2000 [] fs = D2000_11 -> 2000,
         sensitivity |->
            CASE fs = D250 -> 875 [] fs = D500 -> 1750
              [] fs = D2000 -> 7000 [] fs = D2000_11 -> 7000,
         zero_rate_noise |->
            CASE fs = D250 -> 10 [] fs = D500 -> 15
              [] fs = D2000 -> 75 [] fs = D2000_11 -> 75,
         zero_rate_level_temp |->
            CASE fs = D250 -> 3 * data [] fs = D500 -> 3 * data
              [] fs = D2000 -> 4 * data [] fs = D2000_11 -> 5 * data,
         rate_noise_density |-> 3 * SqrtHzFactorMilli(bw, odr)]

----------------------------------------------------------------------------
(* Register transactions: lib.rs, read_register / write_register / xyz_raw *)
(* / data_raw build one transfer buffer each.                              *)

read_register_tx(reg) == <<read_single_cmd(reg), 0>>

write_register_tx(reg, byte) == <<write_single_cmd(reg), byte>>

xyz_raw_tx == <<read_multi_cmd(OutXLow), 0, 0, 0, 0, 0, 0>>

\* faulty variant: the buffer of xyz_raw (6 data bytes) used for data_raw
data_raw_tx_short == <<read_multi_cmd(TemperatureRegister), 0, 0, 0, 0, 0, 0>>

data_raw_tx == <<read_multi_cmd(TemperatureRegister), 0, 0, 0, 0, 0, 0, 0, 0>>

\* the steps an operation is made of
ReadStep(reg) == [t |-> "read", reg |-> reg]
WriteStep(reg, byte) == [t |-> "write", reg |-> reg, byte |-> byte]
WriteBackStep(reg) == [t |-> "write_back", reg |-> reg]
XyzStep == [t |-> "xyz"]
DataStep == [t |-> "data"]

\* reset(): six register writes
reset_plan ==
    << WriteStep(ControlRegister1,
           with_bandwidth(
             with_output_data_rate(
               with_z_enable(
                 with_y_enable(
                   with_x_enable(
                     with_power_up(RegisterDefault, TRUE), TRUE), TRUE), TRUE),
               Hz95),
             Narrowest)),
       WriteStep(ControlRegister2,
           with_field(with_field(RegisterDefault, "hpm", NormalModeResetFilter),
                      "hpcf", 0)),
       WriteStep(ControlRegister3,
           with_field(
             with_field(
               with_field(
                 with_field(
                   with_i2drdy(
                     with_field(
                       with_field(
                         with_field(RegisterDefault, "i1int1", 0),
                         "i1boot", 0),
                       "int1_low", 0),
                     FALSE),
                   "i2wtm", 0),
                 "i2orun", 0),
               "i2empty", 0),
             "open_drain", 0)),
       WriteStep(ControlRegister4,
           with_field(
             with_full_scale(
               with_field(
                 with_field(RegisterDefault, "block_data_update", 0),
                 "big_endian", 0),
               D250),
             "spi_serial_3wire", 0)),
       WriteStep(ControlRegister5, with_boot(RegisterDefault, TRUE)),
       WriteStep(ControlRegister5,
           with_field(
             with_field(
               with_field(
                 with_field(
                   with_boot(RegisterDefault, FALSE), "fifo_enable", 0),
                 "hpen", 0),
               "int1_sel", 0),
             "out_sel", 0)) >>

\* modify_register(f): read the register, then write f(register)
modify_register_plan(reg) == << ReadStep(reg), WriteBackStep(reg) >>

\* the closures the mutators hand to modify_register
power_up_f(reg) ==
    with_z_enable(with_y_enable(with_x_enable(with_power_up(reg, TRUE), TRUE),
                                TRUE), TRUE)

sleep_mode_f(reg) ==
    with_z_enable(with_y_enable(with_x_enable(with_power_up(reg, TRUE), FALSE),
                                FALSE), FALSE)

power_down_f(reg) == with_power_up(reg, FALSE)

enable_data_ready_f(reg, enabled) == with_i2drdy(reg, enabled)

\* faulty variant: the data rate is set on a default register value, the
\* byte just read is dropped
set_odr_f_from_default(reg, data_rate) ==
    with_output_data_rate(RegisterDefault, data_rate)

set_odr_f(reg, data_rate) == with_output_data_rate(reg, data_rate)

set_bandwidth_f(reg, bw) == with_bandwidth(reg, bw)

Mutators ==
    {"power_up", "sleep_mode", "power_down", "set_odr", "set_bandwidth",
     "enable_data_ready"}

\* the register a mutator modifies (the closure's argument type)
ModifyTarget(o) ==
    IF o.name = "enable_data_ready" THEN ControlRegister3
    ELSE ControlRegister1

Transform(o, reg) ==
    CASE o.name = "power_up" -> power_up_f(reg)
      [] o.name = "sleep_mode" -> sleep_mode_f(reg)
      [] o.name = "power_down" -> power_down_f(reg)
      [] o.name = "enable_data_ready" -> enable_data_ready_f(reg, o.enabled)
      [] o.name = "set_odr" -> set_odr_f(reg, o.data_rate)
      [] o.name = "set_bandwidth" -> set_bandwidth_f(reg, o.bandwidth)

\* faulty variant: control register 2 read in place of control register 1
characteristics_plan_reg2 ==
    << ReadStep(TemperatureRegister), ReadStep(ControlRegister2),
       ReadStep(ControlRegister4) >>

\* characteristics(): temp_raw, then control registers 1 and 4
characteristics_plan ==
    << ReadStep(TemperatureRegister), ReadStep(ControlRegister1),
       ReadStep(ControlRegister4) >>

\* the register transactions of a public operation, in program order
Plan(o) ==
    CASE o.name \in {"new", "reset"} -> reset_plan
      [] o.name = "identify" -> << ReadStep(WhoAmI) >>
      [] o.name \in Mutators -> modify_register_plan(ModifyTarget(o))
      [] o.name = "characteristics" -> characteristics_plan
      [] o.name = "temp_raw" -> << ReadStep(TemperatureRegister) >>
      [] o.name = "xyz_raw" -> << XyzStep >>
      [] o.name = "data_raw" -> << DataStep >>
      [] o.name = "read_register" -> << ReadStep(o.reg) >>
      [] o.name = "write_register" -> << WriteStep(o.reg, o.byte) >>

\* the buffer of transaction `step`; `seen` holds the registers read so far
StepTx(o, step, seen) ==
    CASE step.t = "read" -> read_register_tx(step.reg)
      [] step.t = "write" -> write_register_tx(step.reg, step.byte)
      [] step.t = "write_back" ->
            write_register_tx(step.reg, Transform(o, seen[Len(seen)]))
      [] step.t = "xyz" -> xyz_raw_tx
      [] step.t = "data" -> data_raw_tx

Unit == [unit |-> TRUE]

\* what the transaction returns on Ok (R::from_bits is the byte itself)
StepValue(step, buf) ==
    CASE step.t = "read" -> At(buf, 1)
      [] step.t \in {"write", "write_back"} -> Unit
      [] step.t = "xyz" -> xyz_raw_ok(buf)
      [] step.t = "data" -> data_raw_ok(buf)

\* what the operation returns once all its transactions returned Ok
OpValue(o, seen) ==
    CASE o.name = "identify" -> [ident_ok |-> (seen[1] = L3GD20_IDENT)]
      [] o.name = "characteristics" ->
            characteristics_ok(seen[1], seen[2], seen[3])
      [] o.name \in {"temp_raw", "read_register", "xyz_raw", "data_raw"} ->
            seen[1]
      [] OTHER -> Unit

\* `?` after a transaction: an Err returns from the operation at once
\* faulty variant: only the last transaction's Err is returned
PropagatesLastOnly(o, k, x) == ~x.ok /\ k = Len(Plan(o))

Propagates(o, k, x) == ~x.ok

\* `_guard` goes out of scope on both exits of a transaction
\* faulty variant: chip-select released by hand after a successful transfer
drop_guard_on_ok(x) == x.ok

drop_guard(x) == TRUE

----------------------------------------------------------------------------
(* The bus and the device behind it (the driver's environment).            *)
(* A transfer either fails with a transport error or returns a reply of    *)
(* the same length: the byte clocked in during the command byte, then the  *)
(* addressed registers (the address auto-increments in a MULTI command).   *)

\* transport errors the bus can report
Errors == {"BusFault", "ModeFault"}

\* what arrives while the command byte is clocked out
EchoBytes == {0, 255}

\* snapshots of the volatile registers: temperature, status, OUT_X_L..OUT_Z_H
Frames ==
    { [temp |-> 25, status |-> 15,  out |-> <<52, 18, 0, 0, 0, 0>>],
      [temp |-> 0,  status |-> 0,   out |-> <<255, 255, 0, 128, 1, 0>>],
      [temp |-> 25, status |-> 175, out |-> <<1, 2, 3, 4, 5, 6>>] }

\* WHO_AM_I of the chip on the bus: an L3GD20, or some other part
ChipIdents == {L3GD20_IDENT, 211}

PowerOnRegs ==
    [a \in ControlRegisters |-> IF a = ControlRegister1 THEN 7 ELSE 0]

IsRead(cmd) == TestBit(cmd, 7)
IsMulti(cmd) == TestBit(cmd, 6)
CmdAddress(cmd) == cmd % 64

\* the register the device presents at `addr`
DeviceRegister(rg, f, id, addr) ==
    CASE addr \in ControlRegisters -> rg[addr]
      [] addr = WhoAmI -> id
      [] addr = TemperatureRegister -> f.temp
      [] addr = StatusRegister -> f.status
      [] addr \in OutXLow..(OutXLow + 5) -> f.out[addr - OutXLow + 1]
      [] OTHER -> 0

\* the reply to transmit buffer tx
DeviceReply(rg, f, id, e, tx) ==
    [i \in 1..Len(tx) |->
        IF i = 1 \/ ~IsRead(tx[1]) THEN e
        ELSE DeviceRegister(rg, f, id,
                 IF IsMulti(tx[1]) THEN CmdAddress(tx[1]) + (i - 2)
                 ELSE CmdAddress(tx[1]))]

\* the configuration registers after the device has taken tx
DeviceAfter(rg, tx) ==
    IF ~IsRead(tx[1]) /\ CmdAddress(tx[1]) \in ControlRegisters
    THEN [rg EXCEPT ![CmdAddress(tx[1])] = tx[2]]
    ELSE rg

----------------------------------------------------------------------------
(* The driver                                                              *)

NoXfer == [ok |-> TRUE]
NoPure == [fn |-> "none"]

DriverInit ==
    /\ cs = FALSE
    /\ regs = PowerOnRegs
    /\ constructed = FALSE
    /\ op = [name |-> "none"]
    /\ txn = 0
    /\ phase = "idle"
    /\ buffer = <<>>
    /\ xfer = NoXfer
    /\ acc = <<>>
    /\ log = <<>>
    /\ nSelect = 0
    /\ nRelease = 0
    /\ result = [kind |-> "none"]

Init == DriverInit /\ input = NoPure /\ output = NoPure

\* a public method is entered: its locals are fresh
Begin(o) ==
    /\ phase = "idle"
    /\ constructed <=> (o.name # "new")
    /\ op' = o
    /\ txn' = 1
    /\ phase' = "begin"
    /\ buffer' = <<>>
    /\ xfer' = NoXfer
    /\ acc' = <<>>
    /\ log' = <<>>
    /\ nSelect' = 0
    /\ nRelease' = 0
    /\ result' = [kind |-> "pending"]
    /\ UNCHANGED <<cs, regs, constructed, input, output>>

Call_new == Begin([name |-> "new"])
Call_identify == Begin([name |-> "identify"])
Call_reset == Begin([name |-> "reset"])
Call_power_up == Begin([name |-> "power_up"])
Call_sleep_mode == Begin([name |-> "sleep_mode"])
Call_power_down == Begin([name |-> "power_down"])
Call_enable_data_ready ==
    \E b \in BOOLEAN : Begin([name |-> "enable_data_ready", enabled |-> b])
Call_set_odr ==
    \E r \in OutputDataRate : Begin([name |-> "set_odr", data_rate |-> r])
Call_set_bandwidth ==
    \E b \in Bandwidth : Begin([name |-> "set_bandwidth", bandwidth |-> b])
Call_characteristics == Begin([name |-> "characteristics"])
Call_temp_raw == Begin([name |-> "temp_raw"])
Call_xyz_raw == Begin([name |-> "xyz_raw"])
Call_data_raw == Begin([name |-> "data_raw"])

\* the generic accessors, called for a control and a volatile register
Call_read_register ==
    \E r \in {ControlRegister1, StatusRegister} :
        Begin([name |-> "read_register", reg |-> r])

\* ... and to set each full scale in control register 4
Call_write_register ==
    \E fs \in Sensitivity :
        Begin([name |-> "write_register", reg |-> ControlRegister4,
               byte |-> with_full_scale(RegisterDefault, fs)])

\* let _guard = self.cs.select_guard(); then the buffer is built
Select ==
    /\ phase = "begin"
    /\ cs' = TRUE
    /\ nSelect' = nSelect + 1
    /\ buffer' = StepTx(op, Plan(op)[txn], acc)
    /\ phase' = "selected"
    /\ UNCHANGED <<regs, constructed, op, txn, xfer, acc, log, nRelease,
                   result, input, output>>

\* self.spi.transfer(&mut buffer) returns Ok: the buffer holds the reply
TransferOk ==
    /\ phase = "selected"
    /\ \E f \in Frames, id \in ChipIdents, e \in EchoBytes :
          buffer' = DeviceReply(regs, f, id, e, buffer)
    /\ regs' = DeviceAfter(regs, buffer)
    /\ log' = Append(log, buffer)
    /\ xfer' = [ok |-> TRUE]
    /\ phase' = "transferred"
    /\ UNCHANGED <<cs, constructed, op, txn, acc, nSelect, nRelease, result,
                   input, output>>

\* self.spi.transfer(&mut buffer) returns Err(e); whether the device took
\* the bytes before the fault is not known
TransferErr ==
    /\ phase = "selected"
    /\ \E e \in Errors : xfer' = [ok |-> FALSE, err |-> e]
    /\ regs' \in {regs, DeviceAfter(regs, buffer)}
    /\ log' = Append(log, buffer)
    /\ phase' = "transferred"
    /\ UNCHANGED <<cs, constructed, op, txn, buffer, acc, nSelect, nRelease,
                   result, input, output>>

\* faulty variant: the guard is taken by the operation, not by the
\* transaction, so chip-select stays asserted between its transactions
Release_at_end_of_operation ==
    /\ phase = "transferred"
    /\ cs' = IF xfer.ok /\ txn < Len(Plan(op)) THEN cs ELSE FALSE
    /\ nRelease' = IF xfer.ok /\ txn < Len(Plan(op)) THEN nRelease
                   ELSE nRelease + 1
    /\ acc' = IF xfer.ok THEN Append(acc, StepValue(Plan(op)[txn], buffer))
              ELSE acc
    /\ buffer' = <<>>
    /\ phase' = "released"
    /\ UNCHANGED <<regs, constructed, op, txn, xfer, log, nSelect, result,
                   input, output>>

\* the transaction's scope ends (Ok value built, or `?` returning early)
Release ==
    /\ phase = "transferred"
    /\ cs' = IF drop_guard(xfer) THEN FALSE ELSE cs
    /\ nRelease' = IF drop_guard(xfer) THEN nRelease + 1 ELSE nRelease
    /\ acc' = IF xfer.ok THEN Append(acc, StepValue(Plan(op)[txn], buffer))
              ELSE acc
    /\ buffer' = <<>>
    /\ phase' = "released"
    /\ UNCHANGED <<regs, constructed, op, txn, xfer, log, nSelect, result,
                   input, output>>

\* `?` on an Err: the operation returns that error
ReturnErr ==
    /\ phase = "released"
    /\ Propagates(op, txn, xfer)
    /\ result' = [kind |-> "err", err |-> xfer.err]
    /\ phase' = "idle"
    /\ UNCHANGED <<cs, regs, constructed, op, txn, buffer, xfer, acc, log,
                   nSelect, nRelease, input, output>>

\* the next transaction of the operation
NextTransaction ==
    /\ phase = "released"
    /\ ~Propagates(op, txn, xfer)
    /\ txn < Len(Plan(op))
    /\ txn' = txn + 1
    /\ phase' = "begin"
    /\ UNCHANGED <<cs, regs, constructed, op, buffer, xfer, acc, log,
                   nSelect, nRelease, result, input, output>>

\* the last transaction returned Ok: the operation returns Ok(value)
ReturnOk ==
    /\ phase = "released"
    /\ ~Propagates(op, txn, xfer)
    /\ txn = Len(Plan(op))
    /\ result' = [kind |-> "ok", value |-> OpValue(op, acc)]
    /\ constructed' = (constructed \/ op.name = "new")
    /\ phase' = "idle"
    /\ UNCHANGED <<cs, regs, op, txn, buffer, xfer, acc, log, nSelect,
                   nRelease, input, output>>

Next ==
    \/ Call_new
    \/ Call_identify
    \/ Call_reset
    \/ Call_power_up
    \/ Call_sleep_mode
    \/ Call_power_down
    \/ Call_enable_data_ready
    \/ Call_set_odr
    \/ Call_set_bandwidth
    \/ Call_characteristics
    \/ Call_temp_raw
    \/ Call_xyz_raw
    \/ Call_data_raw
    \/ Call_read_register
    \/ Call_write_register
    \/ Select
    \/ TransferOk
    \/ TransferErr
    \/ Release
    \/ ReturnErr
    \/ NextTransaction
    \/ ReturnOk

Spec == Init /\ [][Next]_vars

----------------------------------------------------------------------------
(* The pure functions on their own: the initial state draws the argument,  *)
(* an action applies the function.  The driver stays idle.                 *)

Apply(fn, v) ==
    /\ output' = [fn |-> fn, value |-> v]
    /\ UNCHANGED <<driverVars, input>>

\* --- command codec, every u8 address
CodecInit ==
    /\ DriverInit
    /\ input \in {[fn |-> "address", address |-> a] : a \in Byte}
    /\ output = NoPure

Apply_read_single_cmd ==
    /\ input.fn = "address" /\ output = NoPure
    /\ Apply("read_single_cmd", read_single_cmd(input.address))

Apply_read_multi_cmd ==
    /\ input.fn = "address" /\ output = NoPure
    /\ Apply("read_multi_cmd", read_multi_cmd(input.address))

Apply_write_single_cmd ==
    /\ input.fn = "address" /\ output = NoPure
    /\ Apply("write_single_cmd", write_single_cmd(input.address))

CodecNext ==
    \/ Apply_read_single_cmd
    \/ Apply_read_multi_cmd
    \/ Apply_write_single_cmd

CodecSpec == CodecInit /\ [][CodecNext]_vars

\* --- SensorData::new and the sample-level predicates, every status byte
FreshInit ==
    /\ DriverInit
    /\ input \in {[fn |-> "sample", temperature |-> 25, x |-> x, y |-> y,
                   z |-> z, status |-> st] :
                     x \in {-32768, -1, 4660}, y \in {0, 1}, z \in {2, 32767},
                     st \in Byte}
    /\ output = NoPure

Apply_SensorData_new ==
    /\ input.fn = "sample" /\ output = NoPure
    /\ Apply("SensorData::new",
             SensorData_new(input.temperature, input.x, input.y, input.z,
                            input.status))

Apply_SensorData_stale ==
    /\ output.fn = "SensorData::new"
    /\ output' = [fn |-> "stale", self |-> output.value,
                  value |-> SensorData_stale(output.value)]
    /\ UNCHANGED <<driverVars, input>>

Apply_SensorData_fresh ==
    /\ output.fn = "SensorData::new"
    /\ output' = [fn |-> "fresh", self |-> output.value,
                  value |-> SensorData_fresh(output.value)]
    /\ UNCHANGED <<driverVars, input>>

Apply_SensorData_fresh_or_overrun ==
    /\ output.fn = "SensorData::new"
    /\ output' = [fn |-> "fresh_or_overrun", self |-> output.value,
                  value |-> SensorData_fresh_or_overrun(output.value)]
    /\ UNCHANGED <<driverVars, input>>

Apply_SensorData_overrun ==
    /\ output.fn = "SensorData::new"
    /\ output' = [fn |-> "overrun", self |-> output.value,
                  value |-> SensorData_overrun(output.value)]
    /\ UNCHANGED <<driverVars, input>>

FreshNext ==
    \/ Apply_SensorData_new
    \/ Apply_SensorData_stale
    \/ Apply_SensorData_fresh
    \/ Apply_SensorData_fresh_or_overrun
    \/ Apply_SensorData_overrun

FreshSpec == FreshInit /\ [][FreshNext]_vars

\* --- decoding of a burst reply, over a wider range of reply bytes than
\* --- the device snapshots of the driver specification
DecodeInit ==
    /\ DriverInit
    /\ \/ input \in
              {[fn |-> "xyz_reply",
                rx |-> <<e, b[1], b[2], b[3], b[4], b[5], b[6]>>] :
                  e \in EchoBytes, b \in [1..6 -> {0, 18, 52, 128, 255}]}
       \/ input \in
              {[fn |-> "data_reply",
                rx |-> <<e, t, st, b[1], b[2], b[3], b[4], b[5], b[6]>>] :
                  e \in EchoBytes, t \in {0, 25}, st \in {0, 15, 175},
                  b \in [1..6 -> {0, 52, 255}]}
    /\ output = NoPure

Apply_xyz_raw ==
    /\ input.fn = "xyz_reply" /\ output = NoPure
    /\ Apply("xyz_raw", StepValue(XyzStep, input.rx))

Apply_data_raw ==
    /\ input.fn = "data_reply" /\ output = NoPure
    /\ Apply("data_raw", StepValue(DataStep, input.rx))

DecodeNext ==
    \/ Apply_xyz_raw
    \/ Apply_data_raw

DecodeSpec == DecodeInit /\ [][DecodeNext]_vars

----------------------------------------------------------------------------
(* Properties                                                              *)

\* C1: for every address 0..255 the command byte has bit 7 set exactly for
\* the read commands, bit 6 set exactly for the multi command, and bits 5..0
\* equal to the address reduced to 0..63.
C1_CommandByteLayout ==
    output.fn \in {"read_single_cmd", "read_multi_cmd", "write_single_cmd"} =>
        /\ output.value \in Byte
        /\ (output.value \div 128 = 1) <=>
               (output.fn \in {"read_single_cmd", "read_multi_cmd"})
        /\ ((output.value \div 64) % 2 = 1) <=> (output.fn = "read_multi_cmd")
        /\ output.value % 64 = input.address % 64

\* C1 witness: an address above 63 (0xA8) went through write_single_cmd and
\* came out as 0x28.
C1_Witness ==
    /\ output.fn = "write_single_cmd"
    /\ input.address = 168
    /\ output.value = 40

AllAxes(sd, tags) == sd.x.tag \in tags /\ sd.y.tag \in tags /\ sd.z.tag \in tags

\* C2: SensorData::fresh() is true if and only if x, y and z are all Fresh.
C2_FreshIffAllFresh ==
    output.fn = "fresh" => (output.value <=> AllAxes(output.self, {"Fresh"}))

\* C3: fresh_or_overrun() is true exactly when no axis is Stale, and
\* overrun() is true exactly when every axis is Overrun.
C3_UniversalFolds ==
    /\ output.fn = "fresh_or_overrun" =>
           (output.value <=> AllAxes(output.self, {"Fresh", "Overrun"}))
    /\ output.fn = "overrun" =>
           (output.value <=> AllAxes(output.self, {"Overrun"}))

\* the tag the claim assigns to (data-available, overrun)
ClaimedTag(da, ovr) ==
    CASE ovr -> "Overrun"
      [] da /\ ~ovr -> "Fresh"
      [] ~da /\ ~ovr -> "Stale"

StatusBit(st, i) == (st \div (2 ^ i)) % 2 = 1

\* C4: SensorData::new tags each axis from that axis's own data-available
\* and overrun bits: (0,0) Stale, (1,0) Fresh, overrun Overrun whatever
\* data-available is; the wrapped value is the raw axis value.
C4_AxisClassification ==
    output.fn = "SensorData::new" =>
        LET st == input.status
            sd == output.value
        IN  /\ sd.x = [tag |-> ClaimedTag(StatusBit(st, 0), StatusBit(st, 4)),
                       value |-> input.x]
            /\ sd.y = [tag |-> ClaimedTag(StatusBit(st, 1), StatusBit(st, 5)),
                       value |-> input.y]
            /\ sd.z = [tag |-> ClaimedTag(StatusBit(st, 2), StatusBit(st, 6)),
                       value |-> input.z]
            /\ sd.temperature = input.temperature

\* C4 witness: status 0b0001_0010: x has overrun without data-available,
\* y has data-available only, z has neither.
C4_Witness ==
    /\ output.fn = "SensorData::new"
    /\ input.status = 18
    /\ output.value.x.tag = "Overrun"
    /\ output.value.y.tag = "Fresh"
    /\ output.value.z.tag = "Stale"
    /\ output.value.x.value = input.x

Signed16(u) == IF u >= 32768 THEN u - 65536 ELSE u

\* C8: each axis value is the signed 16-bit reading of (high << 8) | low,
\* the reply after the echoed byte being XL XH YL YH ZL ZH for xyz_raw and
\* temperature, status, XL XH YL YH ZL ZH for data_raw; the echoed byte is
\* not used; bytes 0x34 0x12 0 0 0 0 give x = 0x1234, y = 0, z = 0.
C8_AxisByteOrder ==
    LET rx == input.rx
    IN  /\ output.fn = "xyz_raw" =>
            /\ output.value =
                   [x |-> Signed16(rx[3] * 256 + rx[2]),
                    y |-> Signed16(rx[5] * 256 + rx[4]),
                    z |-> Signed16(rx[7] * 256 + rx[6])]
            /\ SubSeq(rx, 2, 7) = <<52, 18, 0, 0, 0, 0>> =>
                   output.value = [x |-> 4660, y |-> 0, z |-> 0]
        /\ output.fn = "data_raw" =>
            /\ output.value.temperature = rx[2]
            /\ output.value.x.value = Signed16(rx[5] * 256 + rx[4])
            /\ output.value.y.value = Signed16(rx[7] * 256 + rx[6])
            /\ output.value.z.value = Signed16(rx[9] * 256 + rx[8])

\* C8 witness: xyz_raw decoded the reply 0x34 0x12 0 0 0 0 behind a
\* non-zero echoed byte.
C8_Witness ==
    /\ output.fn = "xyz_raw"
    /\ input.rx = <<255, 52, 18, 0, 0, 0, 0>>
    /\ output.value = [x |-> 4660, y |-> 0, z |-> 0]

SingleTransactionOps ==
    {"read_register", "write_register", "xyz_raw", "data_raw"}

Returned == phase = "idle" /\ result.kind \in {"ok", "err"}

\* C5: read_register, write_register, xyz_raw and data_raw assert
\* chip-select once and release it exactly once per call, whether the
\* transfer succeeds or fails; once the call has returned chip-select is
\* de-asserted.  The same holds of every register transaction inside a
\* longer operation.
C5_SelectReleasedOncePerCall ==
    /\ (op.name \in SingleTransactionOps) =>
           /\ nSelect <= 1
           /\ nRelease <= nSelect
           /\ Returned => (nSelect = 1 /\ nRelease = 1 /\ ~cs)
    /\ phase = "released" => (nSelect = txn /\ nRelease = txn /\ ~cs)

\* C5 witness: xyz_raw has returned a transport error after one assertion
\* and one release of chip-select.
C5_Witness ==
    /\ op.name = "xyz_raw"
    /\ phase = "idle"
    /\ result.kind = "err"
    /\ ~xfer.ok
    /\ nSelect = 1
    /\ nRelease = 1
    /\ ~cs

\* C6: data_raw hands spi.transfer exactly one buffer per call, of 9 bytes:
\* the read-multi command for the temperature register (0xE6) and 8 zero
\* bytes, whatever the reply holds.
C6_DataRawOneTransferOfNine ==
    op.name = "data_raw" =>
        /\ log \in {<<>>, << <<230, 0, 0, 0, 0, 0, 0, 0, 0>> >>}
        /\ phase \in {"transferred", "released", "idle"} => Len(log) = 1

\* C6 witness: data_raw has returned a sample whose status byte flagged an
\* overrun on y, after one transfer.
C6_Witness ==
    /\ op.name = "data_raw"
    /\ phase = "idle"
    /\ result.kind = "ok"
    /\ result.value.y.tag = "Overrun"
    /\ result.value.z.tag = "Fresh"
    /\ Len(log) = 1

\* C7: a failed transfer ends the operation: no further transaction is
\* started by the call, the call returns the error of that transfer, and
\* the failed transfer is the last one it issued (a mutator whose read
\* fails has issued no write).  A call that returns Ok has issued all its
\* transfers.
C7_ErrorAbortsOperation ==
    /\ ~xfer.ok =>
           /\ phase \in {"transferred", "released", "idle"}
           /\ Len(log) = txn
           /\ phase = "idle" =>
                  result = [kind |-> "err", err |-> xfer.err]
    /\ (Returned /\ result.kind = "ok") =>
           (xfer.ok /\ Len(log) = Len(Plan(op)))
    /\ (Returned /\ result.kind = "err") => ~xfer.ok
    /\ (op.name \in Mutators /\ ~xfer.ok /\ txn = 1) =>
           (Len(log) = 1 /\ IsRead(log[1][1]))

\* C7 witness: set_odr has returned the error of its register read, having
\* issued that one transfer only.
C7_Witness ==
    /\ op.name = "set_odr"
    /\ phase = "idle"
    /\ result = [kind |-> "err", err |-> "ModeFault"]
    /\ txn = 1
    /\ Len(log) = 1
    /\ IsRead(log[1][1])

\* the datasheet's noise-equivalent bandwidths, in tenths of a hertz
NoiseBandwidthTenthHz(bw, odr) ==
    CASE bw = Narrowest ->
            (CASE odr = Hz95 -> 125 [] odr = Hz190 -> 125
               [] odr = Hz380 -> 200 [] odr = Hz760 -> 300)
      [] bw = Narrow ->
            (CASE odr = Hz95 -> 250 [] odr = Hz190 -> 250
               [] odr = Hz380 -> 250 [] odr = Hz760 -> 350)
      [] bw = Medium ->
            (CASE odr = Hz95 -> 250 [] odr = Hz190 -> 500
               [] odr = Hz380 -> 500 [] odr = Hz760 -> 500)
      [] bw = Wide ->
            (CASE odr = Hz95 -> 250 [] odr = Hz190 -> 700
               [] odr = Hz380 -> 1000 [] odr = Hz760 -> 1000)

Abs(n) == IF n < 0 THEN -n ELSE n

CharacteristicsReturned ==
    op.name = "characteristics" /\ phase = "idle" /\ result.kind = "ok"

\* C9: for every bandwidth and output data rate, rate_noise_density is
\* 0.03 times a factor whose square is that combination's noise-equivalent
\* bandwidth, up to the rounding of the factor (here to 1e-3).
C9_RateNoiseDensityIsSqrtOfBandwidth ==
    CharacteristicsReturned =>
        LET reg1 == acc[2]
            f == result.value.rate_noise_density \div 3
            hz == NoiseBandwidthTenthHz(bandwidth(reg1), output_data_rate(reg1))
        IN  /\ result.value.rate_noise_density = 3 * f
            /\ Abs(f * f - hz * 100000) <= f

FullScaleDps(fs) ==
    CASE fs = D250 -> 250 [] fs = D500 -> 500 [] fs \in {D2000, D2000_11} -> 2000

\* C10: every call of characteristics() issues the three single-register
\* reads (temperature 0x26, control register 1 0x20, control register 4
\* 0x23), and what it returns is computed from the device's registers as
\* they are now: the full scale of control register 4, the bandwidth and
\* output data rate of control register 1, the temperature just read.
C10_CharacteristicsNotCached ==
    /\ op.name = "characteristics" =>
           \E n \in 0..3 :
               log = SubSeq(<< <<166, 0>>, <<160, 0>>, <<163, 0>> >>, 1, n)
    /\ CharacteristicsReturned =>
           LET reg1 == regs[ControlRegister1]
               reg4 == regs[ControlRegister4]
               c == result.value
           IN  /\ Len(log) = 3
               /\ c.full_scale = FullScaleDps((reg4 \div 16) % 4)
               /\ c.rate_noise_density =
                      3 * SqrtHzFactorMilli((reg1 \div 16) % 4, reg1 \div 64)
               /\ c = characteristics_ok(acc[1], reg1, reg4)
               /\ \E f \in Frames : acc[1] = f.temp

\* C10 witness: after the data rate, the bandwidth and the full scale were
\* changed, characteristics() reports 2000 dps and the density of
\* Wide at 760 Hz.
C10_Witness ==
    /\ CharacteristicsReturned
    /\ regs[ControlRegister1] = 255
    /\ regs[ControlRegister4] = 32
    /\ result.value.full_scale = 2000
    /\ result.value.rate_noise_density = 30000

\* C11: in every step of every operation, a transfer is made only while
\* chip-select is asserted and is the first since that assertion;
\* chip-select is released after exactly one transfer and asserted only
\* when every earlier assertion has been released after its transfer; it
\* is de-asserted between the transactions of an operation and whenever no
\* operation is in progress.
C11_OneTransferPerSelect ==
    [][ /\ (Len(log') > Len(log)) =>
               /\ cs /\ cs'
               /\ log' = Append(log, buffer)
               /\ Len(log) = nRelease
               /\ nSelect = nRelease + 1
        /\ (cs /\ ~cs') =>
               (Len(log) = nSelect /\ nRelease' = nSelect /\ log' = log)
        /\ (~cs /\ cs') =>
               (Len(log) = nRelease /\ nSelect = nRelease
                   /\ nSelect' = nSelect + 1)
        /\ (phase' \in {"idle", "begin", "released"}) => ~cs'
        /\ (phase' \in {"selected", "transferred"}) => cs'
      ]_vars

\* C11 witness: reset is at its fourth register write, chip-select asserted
\* for the fourth time, the fourth transfer made, three releases so far.
C11_Witness ==
    /\ op.name = "reset"
    /\ phase = "transferred"
    /\ txn = 4
    /\ cs
    /\ nSelect = 4
    /\ nRelease = 3
    /\ Len(log) = 4

\* the byte `written` differs from the byte `read` in the fields that the
\* mutator `o` sets and in no other bit
OnlyOwnFieldsChanged(o, read, written) ==
    CASE o.name = "set_odr" ->
            /\ written \div 64 = o.data_rate
            /\ written % 64 = read % 64
      [] o.name = "set_bandwidth" ->
            /\ (written \div 16) % 4 = o.bandwidth
            /\ written \div 64 = read \div 64
            /\ written % 16 = read % 16
      [] o.name = "power_down" ->
            /\ (written \div 8) % 2 = 0
            /\ written \div 16 = read \div 16
            /\ written % 8 = read % 8
      [] o.name = "enable_data_ready" ->
            /\ (written \div 8) % 2 = (IF o.enabled THEN 1 ELSE 0)
            /\ written \div 16 = read \div 16
            /\ written % 8 = read % 8
      [] o.name = "power_up" ->
            /\ written % 16 = 15
            /\ written \div 16 = read \div 16
      [] o.name = "sleep_mode" ->
            /\ written % 16 = 8
            /\ written \div 16 = read \div 16

\* the transfers of a mutator so far: a single-register read of its
\* register, then a single-register write to the same address of the byte
\* read with only the mutator's fields changed
ReadModifyWrite ==
    (op.name \in Mutators) =>
        /\ Len(log) <= 2
        /\ Len(log) >= 1 => log[1] = <<128 + ModifyTarget(op), 0>>
        /\ Len(log) = 2 =>
              /\ Len(acc) >= 1
              /\ Len(log[2]) = 2
              /\ log[2][1] = ModifyTarget(op)
              /\ OnlyOwnFieldsChanged(op, acc[1], log[2][2])
        /\ (Returned /\ result.kind = "ok") =>
              /\ Len(log) = 2
              /\ regs[ModifyTarget(op)] = log[2][2]

\* C12: a mutator makes one single-register read and then one
\* single-register write to the same address; the byte written is the byte
\* read with only the mutator's own fields changed (set_odr the data-rate
\* field, set_bandwidth the bandwidth field, power_down the power bit of
\* control register 1, enable_data_ready the data-ready bit of control
\* register 3); a step of a mutator changes no register but its own, and
\* changes that one only to the byte of the write.
C12_ModifyRegisterIsReadModifyWrite ==
    [][ /\ ReadModifyWrite'
        /\ (op.name \in Mutators /\ op' = op /\ regs' # regs) =>
              /\ \A r \in ControlRegisters \ {ModifyTarget(op)} :
                    regs'[r] = regs[r]
              /\ Len(log') = 2
              /\ regs'[ModifyTarget(op)] = log'[2][2]
      ]_vars

\* C12 witness: set_odr(Hz760) has returned Ok; it read 0x0F from control
\* register 1 and wrote 0xCF back.
C12_Witness ==
    /\ op = [name |-> "set_odr", data_rate |-> Hz760]
    /\ Returned
    /\ result.kind = "ok"
    /\ acc[1] = 15
    /\ log = << <<160, 0>>, <<32, 207>> >>
    /\ regs[ControlRegister1] = 207

============================================================================
